---------------------------- MODULE Spec2Model ----------------------------
(***************************************************************************)
(* Model of src/app/server/tools.py: the three MCP tools registered by     *)
(* load_tools (health, get_current_user, ask_agent), the module-level      *)
(* configuration they read, and the collaborators they call (token         *)
(* provider, workspace client, serving endpoint).                          *)
(*                                                                         *)
(* A Python str is a sequence of chunks.  Text that the code inspects      *)
(* (host, exception message, text fragments) is a sequence of one-         *)
(* character chunks; a fixed literal of the code is one chunk.             *)
(***************************************************************************)
EXTENDS Integers, Sequences, FiniteSets, TLC

VARIABLES
    cfg,        \* module globals DATABRICKS_HOST, AGENT_ENDPOINT_NAME, AGENT_DESCRIPTION
    registry,   \* tools registered on the server by load_tools: name and docstring
    inv,        \* inv[i]: the invocation running in server slot i
    net         \* net[i]: outbound network calls issued by the invocation in slot i

vars == <<cfg, registry, inv, net>>

---------------------------------------------------------------------------
(* Bounds *)

MaxCalls == 2       \* invocations in flight at once
MaxMsgLen == 4      \* characters of an exception message
MaxOutput == 2      \* output items of a response
MaxContent == 2     \* content items of an output item

---------------------------------------------------------------------------
(* Python str operations *)

L(s) == <<s>>

StartsWith(s, p) == Len(s) >= Len(p) /\ SubSeq(s, 1, Len(p)) = p

Contains(s, p) ==
    \E k \in 1..(Len(s) - Len(p) + 1) : SubSeq(s, k, k + Len(p) - 1) = p

Whitespace == {" ", "\t", "\n"}

RECURSIVE LStrip(_)
LStrip(s) ==
    IF s # <<>> /\ Head(s) \in Whitespace THEN LStrip(Tail(s)) ELSE s

RECURSIVE RStrip(_)
RStrip(s) ==
    IF s # <<>> /\ s[Len(s)] \in Whitespace
    THEN RStrip(SubSeq(s, 1, Len(s) - 1))
    ELSE s

Strip(s) == RStrip(LStrip(s))

RECURSIVE Join(_, _)
Join(sep, parts) ==
    IF parts = <<>> THEN <<>>
    ELSE IF Len(parts) = 1 THEN parts[1]
    ELSE parts[1] \o sep \o Join(sep, Tail(parts))

HTTPS == <<"h", "t", "t", "p", "s", ":", "/", "/">>
S401 == <<"4", "0", "1">>
S404 == <<"4", "0", "4">>

---------------------------------------------------------------------------
(* Python values: an attribute is missing, None, a list or a str *)

Missing == [kind |-> "missing"]
None == [kind |-> "none"]
List(items) == [kind |-> "list", val |-> items]
Str(s) == [kind |-> "str", val |-> s]

HasAttr(a) == a.kind # "missing"
Truthy(a) == a.kind \in {"list", "str"} /\ a.val # <<>>

Ok(v) == [kind |-> "ok", val |-> v]
Raise(msg) == [kind |-> "raise", msg |-> msg]

Return(payload) == [kind |-> "return", val |-> payload]
Propagate(msg) == [kind |-> "raised", msg |-> msg]

TypeErrorNone == L("'NoneType' object is not iterable")

---------------------------------------------------------------------------
(* Module-level configuration, read once from the environment *)

Unset == [set |-> FALSE]
SetTo(s) == [set |-> TRUE, val |-> s]

EnvGet(v, default) == IF v.set THEN v.val ELSE default

DefaultDescription == L("Ask questions to the AI agent")

LoadConfig(env) ==
    [host        |-> EnvGet(env.DATABRICKS_HOST, <<>>),
     endpoint    |-> EnvGet(env.AGENT_ENDPOINT_NAME, <<>>),
     description |-> EnvGet(env.AGENT_DESCRIPTION, DefaultDescription)]

AskAgentDoc(description) ==
    description \o L("\n\n    Args:\n        prompt: The question or message to send to the agent.\n\n    Returns:\n        dict: The agent's response or an error message.\n    ")

load_tools(c) ==
    << [name |-> "health",
        doc  |-> L("Check the health of the MCP server and Databricks connection.")],
       [name |-> "get_current_user",
        doc  |-> L("Get information about the current authenticated user.")],
       [name |-> "ask_agent", doc |-> AskAgentDoc(c.description)] >>

---------------------------------------------------------------------------
(* health *)

health ==
    Return([status  |-> L("healthy"),
            message |-> L("Custom MCP Server is healthy and connected to Databricks Apps.")])

---------------------------------------------------------------------------
(* get_current_user *)

UserPayload(user) ==
    Return([display_name |-> user.display_name,
            user_name    |-> user.user_name,
            active       |-> user.active])

\* Variant: the two fields of the error payload exchanged.
UserExceptSwapped(msg) ==
    Return([error |-> L("Failed to retrieve user information"), message |-> msg])

UserExcept(msg) ==
    Return([error |-> msg, message |-> L("Failed to retrieve user information")])

---------------------------------------------------------------------------
(* ask_agent *)

NoTokenError ==
    Return([error   |-> L("No OBO token available"),
            message |-> L("This tool requires OBO authentication. Running locally without token.")])

HostNotConfigured ==
    Return([error   |-> L("DATABRICKS_HOST not configured"),
            message |-> L("The DATABRICKS_HOST environment variable is not set. This should be automatic in Databricks Apps.")])

EndpointNotConfigured ==
    Return([error   |-> L("AGENT_ENDPOINT_NAME not configured"),
            message |-> L("The AGENT_ENDPOINT_NAME environment variable is not set.")])

ServingEndpoints == L("/serving-endpoints")

NormalizeHost(host) == IF StartsWith(host, HTTPS) THEN host ELSE HTTPS \o host

BaseUrl(host) == NormalizeHost(host) \o ServingEndpoints

\* Variant: the debug block reports the host as configured.
DebugHostRaw(host) == host

DebugHost(host) == IF StartsWith(host, HTTPS) THEN host ELSE HTTPS \o host

DebugBaseUrl(host) == DebugHost(host) \o ServingEndpoints

\* client = OpenAI(api_key, base_url); client.responses.create(model, input)
CreateRequest(token, prompt, c) ==
    [op       |-> "responses.create",
     base_url |-> BaseUrl(c.host),
     api_key  |-> token,
     model    |-> c.endpoint,
     input    |-> <<[role |-> "user", content |-> prompt]>>]

\* for item in output.content: if hasattr(item, "text") and item.text
RECURSIVE ContentTexts(_)
ContentTexts(items) ==
    IF items = <<>> THEN <<>>
    ELSE LET t == Head(items).text IN
         (IF HasAttr(t) /\ Truthy(t) THEN <<t.val>> ELSE <<>>)
             \o ContentTexts(Tail(items))

\* for output in response.output: if hasattr(output, "content"): ...
\* Iterating a content that is None raises TypeError and ends the walk.
RECURSIVE OutputTexts(_)
OutputTexts(outputs) ==
    IF outputs = <<>> THEN Ok(<<>>)
    ELSE LET c == Head(outputs).content IN
         IF ~HasAttr(c) THEN OutputTexts(Tail(outputs))
         ELSE IF c.kind = "none" THEN Raise(TypeErrorNone)
         ELSE LET rest == OutputTexts(Tail(outputs)) IN
              IF rest.kind = "raise" THEN rest
              ELSE Ok(ContentTexts(c.val) \o rest.val)

\* str(response)
ReprContent(item) ==
    L("Content(")
      \o (CASE item.text.kind = "missing" -> <<>>
            [] item.text.kind = "none" -> L("text=None")
            [] OTHER -> L("text='") \o item.text.val \o L("'"))
      \o L(")")

RECURSIVE ReprContents(_)
ReprContents(items) ==
    IF items = <<>> THEN <<>>
    ELSE ReprContent(Head(items))
           \o (IF Len(items) > 1 THEN L(", ") ELSE <<>>)
           \o ReprContents(Tail(items))

ReprOutput(output) ==
    L("Item(")
      \o (CASE output.content.kind = "missing" -> <<>>
            [] output.content.kind = "none" -> L("content=None")
            [] OTHER -> L("content=[") \o ReprContents(output.content.val) \o L("]"))
      \o L(")")

RECURSIVE ReprOutputs(_)
ReprOutputs(outputs) ==
    IF outputs = <<>> THEN <<>>
    ELSE ReprOutput(Head(outputs))
           \o (IF Len(outputs) > 1 THEN L(", ") ELSE <<>>)
           \o ReprOutputs(Tail(outputs))

ReprResponse(response) ==
    L("Response(")
      \o (CASE response.output.kind = "missing" -> <<>>
            [] response.output.kind = "none" -> L("output=None")
            [] OTHER -> L("output=[") \o ReprOutputs(response.output.val) \o L("]"))
      \o L(")")

Fallback(response) ==
    Ok(Return([response |-> ReprResponse(response),
               note     |-> L("Could not extract text from response")]))

\* Lines 160-175: Ok(the value returned) or Raise(the exception raised).
ParseResponse(response) ==
    IF HasAttr(response.output) /\ Truthy(response.output)
    THEN LET texts == OutputTexts(response.output.val) IN
         IF texts.kind = "raise" THEN texts
         ELSE IF texts.val # <<>>
              THEN Ok(Return([response |-> Strip(Join(L(" "), texts.val))]))
              ELSE Fallback(response)
    ELSE Fallback(response)

\* Variant: the "404" test made before the "401" test.
AskAgentExcept404First(error_msg, c) ==
    IF Contains(error_msg, S404)
    THEN Return([error   |-> error_msg,
                 message |-> L("Endpoint '") \o c.endpoint \o L("' not found or not accessible.")])
    ELSE IF Contains(error_msg, S401)
    THEN Return([error   |-> error_msg,
                 message |-> L("Authentication failed. Check that the App has serving scopes and user has Can Query permission.")])
    ELSE Return([error   |-> error_msg,
                 message |-> L("Failed to query the agent"),
                 debug   |-> [base_url |-> DebugBaseUrl(c.host),
                              endpoint |-> c.endpoint]])

\* except Exception as e: lines 177-199
AskAgentExcept(error_msg, c) ==
    IF Contains(error_msg, S401)
    THEN Return([error   |-> error_msg,
                 message |-> L("Authentication failed. Check that the App has serving scopes and user has Can Query permission.")])
    ELSE IF Contains(error_msg, S404)
    THEN Return([error   |-> error_msg,
                 message |-> L("Endpoint '") \o c.endpoint \o L("' not found or not accessible.")])
    ELSE Return([error   |-> error_msg,
                 message |-> L("Failed to query the agent"),
                 debug   |-> [base_url |-> DebugBaseUrl(c.host),
                              endpoint |-> c.endpoint]])

\* Variant: the configuration is validated before the token is looked at.
AskAgentStartConfigFirst(tok, prompt, c) ==
    IF tok.kind = "raise" THEN [kind |-> "done", ret |-> AskAgentExcept(tok.msg, c)]
    ELSE IF c.host = <<>> THEN [kind |-> "done", ret |-> HostNotConfigured]
    ELSE IF c.endpoint = <<>> THEN [kind |-> "done", ret |-> EndpointNotConfigured]
    ELSE IF tok.val.kind = "none" THEN [kind |-> "done", ret |-> NoTokenError]
    ELSE [kind |-> "send", request |-> CreateRequest(tok.val.val, prompt, c)]

\* Variant: the endpoint name is not validated.
AskAgentStartNoEndpointCheck(tok, prompt, c) ==
    IF tok.kind = "raise" THEN [kind |-> "done", ret |-> AskAgentExcept(tok.msg, c)]
    ELSE IF tok.val.kind = "none" THEN [kind |-> "done", ret |-> NoTokenError]
    ELSE IF c.host = <<>> THEN [kind |-> "done", ret |-> HostNotConfigured]
    ELSE [kind |-> "send", request |-> CreateRequest(tok.val.val, prompt, c)]

\* Lines 123-158, after utils.get_user_token() has returned or raised:
\* the handler either returns at once or sends one request.
AskAgentStart(tok, prompt, c) ==
    IF tok.kind = "raise" THEN [kind |-> "done", ret |-> AskAgentExcept(tok.msg, c)]
    ELSE IF tok.val.kind = "none" THEN [kind |-> "done", ret |-> NoTokenError]
    ELSE IF c.host = <<>> THEN [kind |-> "done", ret |-> HostNotConfigured]
    ELSE IF c.endpoint = <<>> THEN [kind |-> "done", ret |-> EndpointNotConfigured]
    ELSE [kind |-> "send", request |-> CreateRequest(tok.val.val, prompt, c)]

\* Variant: the response is parsed outside the try block.
AskAgentFinishParseEscapes(reply, c) ==
    IF reply.kind = "raise" THEN AskAgentExcept(reply.msg, c)
    ELSE LET parsed == ParseResponse(reply.val) IN
         IF parsed.kind = "raise" THEN Propagate(parsed.msg)
         ELSE parsed.val

\* Lines 155-199, after client.responses.create() has returned or raised.
AskAgentFinish(reply, c) ==
    IF reply.kind = "raise" THEN AskAgentExcept(reply.msg, c)
    ELSE LET parsed == ParseResponse(reply.val) IN
         IF parsed.kind = "raise" THEN AskAgentExcept(parsed.msg, c)
         ELSE parsed.val

\* The whole handler, given what its collaborators answer.
ask_agent(prompt, tok, reply, c) ==
    LET start == AskAgentStart(tok, prompt, c) IN
    IF start.kind = "done" THEN start.ret ELSE AskAgentFinish(reply, c)

\* Lines 109-118, given what the two collaborator calls answer.
get_current_user(client, me) ==
    IF client.kind = "raise" THEN UserExcept(client.msg)
    ELSE IF me.kind = "raise" THEN UserExcept(me.msg)
    ELSE UserPayload(me.val)

---------------------------------------------------------------------------
(* What the environment and the collaborators can supply *)

Seqs(S, n) == UNION {[1..k -> S] : k \in 0..n}

Host1 == <<"e", ".", "c">>
HostsAll ==
    {<<>>, Host1, HTTPS \o Host1, HTTPS,
     <<"h", "t", "t", "p", ":", "/", "/">> \o Host1,
     <<"x">> \o HTTPS \o Host1,
     SubSeq(HTTPS, 1, 7) \o Host1}
HostsSmall == {<<>>, Host1, HTTPS \o Host1}

Endpoint1 == <<"e", "p", "1">>
Endpoint2 == <<"e", "p", "2">>

EnvsOf(hosts, endpoints, descriptions) ==
    [DATABRICKS_HOST     : {Unset} \cup {SetTo(h) : h \in hosts},
     AGENT_ENDPOINT_NAME : {Unset} \cup {SetTo(e) : e \in endpoints},
     AGENT_DESCRIPTION   : descriptions]

EnvsAll ==
    EnvsOf(HostsAll, {<<>>, Endpoint1, Endpoint2},
           {Unset, SetTo(L("Ask the sales agent"))})
EnvsSmall == EnvsOf(HostsSmall, {Endpoint1}, {Unset})
EnvsParse == EnvsOf({Host1}, {Endpoint1}, {Unset})

Prompts == {<<>>, <<"h", "i">>, S401}
PromptsSmall == {<<"h", "i">>}

Tokens == {Ok(None), Ok(Str(<<>>)), Ok(Str(<<"t", "k">>))}
TokensSmall == {Ok(None), Ok(Str(<<"t", "k">>))}

MsgChars == {"4", "0", "1"}
Msgs ==
    Seqs(MsgChars, MaxMsgLen)
      \cup {S401 \o S404, S404 \o S401, <<"4", "0", "4", "0", "1">>}
MsgsSmall == {S401, <<"0">>}

Users ==
    {[display_name |-> L("Ann"), user_name |-> L("ann@example.com"), active |-> TRUE],
     [display_name |-> <<>>, user_name |-> L("bob@example.com"), active |-> FALSE]}

TextAttrs == {Missing, None, Str(<<>>), Str(<<"a">>), Str(<<" ", "b", " ">>)}
ContentItems == [text : TextAttrs]
ContentAttrs(n) == {Missing, None} \cup {List(q) : q \in Seqs(ContentItems, n)}
OutputItems(n) == [content : ContentAttrs(n)]
OutputAttrs(m, n) == {Missing, None} \cup {List(q) : q \in Seqs(OutputItems(n), m)}

\* Every response of at most m output items of at most n content items.
ResponsesOf(m, n) == [output : OutputAttrs(m, n)]
Responses == ResponsesOf(MaxOutput, MaxContent)
ResponsesSmall == ResponsesOf(1, 1)

---------------------------------------------------------------------------
(* The server: invocations of the registered tools *)

Nil == [kind |-> "nil"]

Idle ==
    [pc |-> "idle", tool |-> "", prompt |-> <<>>,
     tok |-> Nil, client |-> Nil, reply |-> Nil, ret |-> Nil]

Slots == DOMAIN inv
OneSlot == {1}

ToolNames == {registry[k].name : k \in DOMAIN registry}

InitOf(envs, n) ==
    /\ \E env \in envs : cfg = LoadConfig(env)
    /\ registry = load_tools(cfg)
    /\ inv = [i \in 1..n |-> Idle]
    /\ net = [i \in 1..n |-> <<>>]

\* The server dispatches a client call to a registered tool.
Invoke(i, prompts) ==
    /\ inv[i].pc = "idle"
    /\ \E t \in ToolNames :
         \E p \in (IF t = "ask_agent" THEN prompts ELSE {<<>>}) :
            inv' = [inv EXCEPT ![i] = [Idle EXCEPT !.pc = "running",
                                                   !.tool = t, !.prompt = p]]
    /\ net' = [net EXCEPT ![i] = <<>>]
    /\ UNCHANGED <<cfg, registry>>

HealthCall(i) ==
    /\ inv[i].pc = "running" /\ inv[i].tool = "health"
    /\ inv' = [inv EXCEPT ![i].pc = "done", ![i].ret = health]
    /\ UNCHANGED <<cfg, registry, net>>

\* w = utils.get_user_authenticated_workspace_client(); on success the
\* handler goes on to call w.current_user.me().
GetWorkspaceClient(i, msgs) ==
    /\ inv[i].pc = "running" /\ inv[i].tool = "get_current_user"
    /\ \E client \in {Ok(L("w"))} \cup {Raise(m) : m \in msgs} :
         IF client.kind = "raise"
         THEN /\ inv' = [inv EXCEPT ![i].pc = "done", ![i].client = client,
                                    ![i].ret = UserExcept(client.msg)]
              /\ net' = net
         ELSE /\ inv' = [inv EXCEPT ![i].pc = "me", ![i].client = client]
              /\ net' = [net EXCEPT ![i] = Append(@, [op |-> "current_user.me"])]
    /\ UNCHANGED <<cfg, registry>>

\* w.current_user.me() returns the user or raises.
CurrentUserMe(i, msgs) ==
    /\ inv[i].pc = "me"
    /\ \E me \in {Ok(u) : u \in Users} \cup {Raise(m) : m \in msgs} :
         inv' = [inv EXCEPT ![i].pc = "done", ![i].reply = me,
                            ![i].ret = IF me.kind = "raise"
                                       THEN UserExcept(me.msg)
                                       ELSE UserPayload(me.val)]
    /\ UNCHANGED <<cfg, registry, net>>

\* utils.get_user_token() returns a token, returns None, or raises.
GetUserToken(i, tokens, msgs) ==
    /\ inv[i].pc = "running" /\ inv[i].tool = "ask_agent"
    /\ \E tok \in tokens \cup {Raise(m) : m \in msgs} :
         inv' = [inv EXCEPT ![i].pc = "token", ![i].tok = tok]
    /\ UNCHANGED <<cfg, registry, net>>

\* Variant: the normalized host is stored back into the module global.
ValidateAndRequestStoresHost(i) ==
    /\ inv[i].pc = "token"
    /\ LET start == AskAgentStart(inv[i].tok, inv[i].prompt, cfg) IN
         IF start.kind = "done"
         THEN /\ inv' = [inv EXCEPT ![i].pc = "done", ![i].ret = start.ret]
              /\ net' = net
              /\ cfg' = cfg
         ELSE /\ inv' = [inv EXCEPT ![i].pc = "awaiting"]
              /\ net' = [net EXCEPT ![i] = Append(@, start.request)]
              /\ cfg' = [cfg EXCEPT !.host = NormalizeHost(@)]
    /\ UNCHANGED registry

\* Token check, configuration checks, client construction and the request.
ValidateAndRequest(i) ==
    /\ inv[i].pc = "token"
    /\ LET start == AskAgentStart(inv[i].tok, inv[i].prompt, cfg) IN
         IF start.kind = "done"
         THEN /\ inv' = [inv EXCEPT ![i].pc = "done", ![i].ret = start.ret]
              /\ net' = net
         ELSE /\ inv' = [inv EXCEPT ![i].pc = "awaiting"]
              /\ net' = [net EXCEPT ![i] = Append(@, start.request)]
    /\ UNCHANGED <<cfg, registry>>

\* Variant: a failed request is sent once more before it is reported.
ReceiveResponseRetry(i, responses, msgs) ==
    /\ inv[i].pc = "awaiting"
    /\ \E reply \in {Ok(r) : r \in responses} \cup {Raise(m) : m \in msgs} :
         IF reply.kind = "raise" /\ Len(net[i]) < 2
         THEN /\ net' = [net EXCEPT ![i] = Append(@, @[1])]
              /\ inv' = inv
         ELSE /\ inv' = [inv EXCEPT ![i].pc = "done", ![i].reply = reply,
                                    ![i].ret = AskAgentFinish(reply, cfg)]
              /\ net' = net
    /\ UNCHANGED <<cfg, registry>>

\* client.responses.create() returns a response or raises.
ReceiveResponse(i, responses, msgs) ==
    /\ inv[i].pc = "awaiting"
    /\ \E reply \in {Ok(r) : r \in responses} \cup {Raise(m) : m \in msgs} :
         inv' = [inv EXCEPT ![i].pc = "done", ![i].reply = reply,
                            ![i].ret = AskAgentFinish(reply, cfg)]
    /\ UNCHANGED <<cfg, registry, net>>

\* The result is handed to the caller and the slot is free again.
ReturnToCaller(i) ==
    /\ inv[i].pc = "done"
    /\ inv' = [inv EXCEPT ![i] = Idle]
    /\ net' = [net EXCEPT ![i] = <<>>]
    /\ UNCHANGED <<cfg, registry>>

\* Concurrent invocations, a small choice of inputs.
Init == InitOf(EnvsSmall, MaxCalls)

Next ==
    \E i \in 1..MaxCalls :
        \/ Invoke(i, PromptsSmall)
        \/ HealthCall(i)
        \/ GetWorkspaceClient(i, MsgsSmall)
        \/ CurrentUserMe(i, MsgsSmall)
        \/ GetUserToken(i, TokensSmall, MsgsSmall)
        \/ ValidateAndRequest(i)
        \/ ReceiveResponse(i, ResponsesSmall, MsgsSmall)
        \/ ReturnToCaller(i)

Spec == Init /\ [][Next]_vars

\* One invocation at a time, every configuration and exception message.
InitOne == InitOf(EnvsAll, Cardinality(OneSlot))

NextOne ==
    \E i \in OneSlot :
        \/ Invoke(i, Prompts)
        \/ HealthCall(i)
        \/ GetWorkspaceClient(i, Msgs)
        \/ CurrentUserMe(i, Msgs)
        \/ GetUserToken(i, Tokens, Msgs)
        \/ ValidateAndRequest(i)
        \/ ReceiveResponse(i, ResponsesSmall, Msgs)
        \/ ReturnToCaller(i)

SpecOne == InitOne /\ [][NextOne]_vars

\* One invocation at a time, every response shape.
InitParse == InitOf(EnvsParse, Cardinality(OneSlot))

NextParse ==
    \E i \in OneSlot :
        \/ Invoke(i, PromptsSmall)
        \/ HealthCall(i)
        \/ GetWorkspaceClient(i, MsgsSmall)
        \/ CurrentUserMe(i, MsgsSmall)
        \/ GetUserToken(i, TokensSmall, MsgsSmall)
        \/ ValidateAndRequest(i)
        \/ ReceiveResponse(i, Responses, MsgsSmall)
        \/ ReturnToCaller(i)

SpecParse == InitParse /\ [][NextParse]_vars

---------------------------------------------------------------------------
(* Vocabulary of the claims *)

Done(i) == inv[i].pc = "done"
Returned(i) == Done(i) /\ inv[i].ret.kind = "return"
Payload(i) == inv[i].ret.val
IsError(p) == "error" \in DOMAIN p

AskAgentCalls == {i \in Slots : inv[i].tool = "ask_agent"}
UserCalls == {i \in Slots : inv[i].tool = "get_current_user"}

PastChecks(i) == inv[i].pc \in {"awaiting", "done"}
TokenAbsent(i) == inv[i].tok = Ok(None)
TokenAvailable(i) == inv[i].tok.kind = "ok" /\ inv[i].tok.val.kind = "str"

Requests(i) == SelectSeq(net[i], LAMBDA r : r.op = "responses.create")

\* The exception caught inside ask_agent, if any.
Raised(i) ==
    IF inv[i].tok.kind = "raise" THEN inv[i].tok
    ELSE IF inv[i].reply.kind = "raise" THEN inv[i].reply
    ELSE IF inv[i].reply.kind = "ok" THEN
         (IF ParseResponse(inv[i].reply.val).kind = "raise"
          THEN ParseResponse(inv[i].reply.val) ELSE Nil)
    ELSE Nil

---------------------------------------------------------------------------
\* C1: an invocation of health, get_current_user or ask_agent never raises
\* past the tool boundary, whatever the collaborators do; it returns either
\* a payload without an 'error' key or a payload with both 'error' and
\* 'message'.
C1_NeverRaises ==
    \A i \in Slots :
        Done(i) =>
            /\ inv[i].ret.kind = "return"
            /\ DOMAIN Payload(i) # {}
            /\ IsError(Payload(i)) => "message" \in DOMAIN Payload(i)

\* A parse of the response raised inside ask_agent and came back as data.
C1_Witness ==
    \E i \in AskAgentCalls :
        /\ Returned(i)
        /\ inv[i].reply.kind = "ok"
        /\ ParseResponse(inv[i].reply.val).kind = "raise"
        /\ {"error", "message"} \subseteq DOMAIN Payload(i)

\* C2: when the token provider returns no token, ask_agent returns the
\* "No OBO token available" error and makes no network call, for every
\* prompt and configuration.
C2_NoToken ==
    \A i \in AskAgentCalls :
        (TokenAbsent(i) /\ inv[i].pc # "token") =>
            /\ Returned(i)
            /\ IsError(Payload(i))
            /\ Payload(i).error = L("No OBO token available")
            /\ net[i] = <<>>

\* No token, and neither host nor endpoint configured.
C2_Witness ==
    \E i \in AskAgentCalls :
        /\ Returned(i) /\ TokenAbsent(i)
        /\ cfg.host = <<>> /\ cfg.endpoint = <<>>
        /\ inv[i].prompt # <<>>

\* C3: with a token, a missing host gives the error naming DATABRICKS_HOST,
\* and a missing endpoint alone the error naming AGENT_ENDPOINT_NAME; no
\* network call is made and the prompt plays no part.
C3_ConfigError ==
    \A i \in AskAgentCalls :
        (TokenAvailable(i) /\ inv[i].pc # "token"
           /\ (cfg.host = <<>> \/ cfg.endpoint = <<>>)) =>
            /\ Returned(i)
            /\ net[i] = <<>>
            /\ DOMAIN Payload(i) = {"error", "message"}
            /\ Payload(i).error =
                  IF cfg.host = <<>> THEN L("DATABRICKS_HOST not configured")
                  ELSE L("AGENT_ENDPOINT_NAME not configured")
            /\ Payload(i).message =
                  IF cfg.host = <<>>
                  THEN L("The DATABRICKS_HOST environment variable is not set. This should be automatic in Databricks Apps.")
                  ELSE L("The AGENT_ENDPOINT_NAME environment variable is not set.")

\* A token, a host, no endpoint, and a prompt that reads "401".
C3_Witness ==
    \E i \in AskAgentCalls :
        /\ Returned(i) /\ TokenAvailable(i)
        /\ cfg.host # <<>> /\ cfg.endpoint = <<>>
        /\ inv[i].prompt = S401

HasScheme(h) ==
    /\ Len(h) >= Len(HTTPS)
    /\ \A k \in 1..Len(HTTPS) : h[k] = HTTPS[k]

\* C4: the base URL of the request is the host, with https:// put in front
\* unless the host starts with it, followed by /serving-endpoints; and the
\* base URL in the debug block of a generic failure is the one the request
\* of that invocation used.
C4_BaseUrl ==
    \A i \in AskAgentCalls :
        \A k \in DOMAIN Requests(i) :
            LET url == Requests(i)[k].base_url IN
            /\ StartsWith(url, HTTPS)
            /\ url = (IF HasScheme(cfg.host) THEN <<>> ELSE HTTPS)
                       \o cfg.host \o L("/serving-endpoints")
            /\ (Returned(i) /\ "debug" \in DOMAIN Payload(i)) =>
                   Payload(i).debug.base_url = url

\* A request to a host given without scheme failed with a generic error.
C4_Witness ==
    \E i \in AskAgentCalls :
        /\ Returned(i) /\ Requests(i) # <<>>
        /\ "debug" \in DOMAIN Payload(i)
        /\ ~StartsWith(cfg.host, HTTPS)

\* The text fragments of a response as the claims speak of them: every
\* non-empty text of a content item of an output item, in order.
RECURSIVE ItemFragments(_)
ItemFragments(items) ==
    IF items = <<>> THEN <<>>
    ELSE (IF Head(items).text.kind = "str" /\ Head(items).text.val # <<>>
          THEN <<Head(items).text.val>> ELSE <<>>)
           \o ItemFragments(Tail(items))

RECURSIVE OutputFragments(_)
OutputFragments(outputs) ==
    IF outputs = <<>> THEN <<>>
    ELSE (IF Head(outputs).content.kind = "list"
          THEN ItemFragments(Head(outputs).content.val) ELSE <<>>)
           \o OutputFragments(Tail(outputs))

Fragments(response) ==
    IF response.output.kind = "list"
    THEN OutputFragments(response.output.val) ELSE <<>>

EachTrimmed(texts) == [k \in DOMAIN texts |-> Strip(texts[k])]

Answered(i) == Done(i) /\ inv[i].reply.kind = "ok"

\* C5: when the remote call succeeds and the response holds at least one
\* text fragment, ask_agent returns {response: T}, T being the fragments in
\* traversal order, each trimmed, joined by single spaces.
C5_JoinedTrimmed ==
    \A i \in AskAgentCalls :
        (Answered(i) /\ Fragments(inv[i].reply.val) # <<>>) =>
            /\ Returned(i)
            /\ Payload(i) =
                 [response |->
                     Join(L(" "), EachTrimmed(Fragments(inv[i].reply.val)))]

\* C6: when the remote call succeeds and the response holds no text
\* fragment, ask_agent returns a payload without 'error' whose 'response'
\* is the stringified response, with a 'note'.
C6_FallbackNotError ==
    \A i \in AskAgentCalls :
        (Answered(i) /\ Fragments(inv[i].reply.val) = <<>>) =>
            /\ Returned(i)
            /\ ~IsError(Payload(i))
            /\ DOMAIN Payload(i) = {"response", "note"}
            /\ Payload(i).response = ReprResponse(inv[i].reply.val)

\* C7: an exception inside ask_agent is reported with the raw message as
\* 'error'; a message containing "401" gets the authentication hint,
\* otherwise one containing "404" gets the endpoint-not-found hint naming
\* the endpoint, otherwise the generic message with the debug block; the
\* debug block appears in no other payload.
C7_Classified ==
    \A i \in AskAgentCalls :
        Done(i) =>
            LET e == Raised(i) IN
            /\ Returned(i)
            /\ ("debug" \in DOMAIN Payload(i)) =>
                   /\ e.kind = "raise"
                   /\ ~Contains(e.msg, S401) /\ ~Contains(e.msg, S404)
            /\ e.kind = "raise" =>
                   /\ Payload(i).error = e.msg
                   /\ Payload(i).message =
                        IF Contains(e.msg, S401)
                        THEN L("Authentication failed. Check that the App has serving scopes and user has Can Query permission.")
                        ELSE IF Contains(e.msg, S404)
                        THEN L("Endpoint '") \o cfg.endpoint
                               \o L("' not found or not accessible.")
                        ELSE L("Failed to query the agent")
                   /\ (~Contains(e.msg, S401) /\ ~Contains(e.msg, S404)) =>
                        /\ DOMAIN Payload(i) = {"error", "message", "debug"}
                        /\ Payload(i).debug =
                             [base_url |-> NormalizeHost(cfg.host)
                                             \o L("/serving-endpoints"),
                              endpoint |-> cfg.endpoint]

\* The remote call failed with a message holding both "404" and "401".
C7_Witness ==
    \E i \in AskAgentCalls :
        /\ Returned(i)
        /\ inv[i].reply.kind = "raise"
        /\ Contains(inv[i].reply.msg, S404)
        /\ Contains(inv[i].reply.msg, S401)

\* C8: get_current_user returns display_name, user_name and active of the
\* user the client returns; when obtaining the client or the lookup raises,
\* it returns exactly {error: the exception's message, message: "Failed to
\* retrieve user information"}.
C8_CurrentUser ==
    \A i \in UserCalls :
        Done(i) =>
            /\ Returned(i)
            /\ (inv[i].client.kind = "ok" /\ inv[i].reply.kind = "ok") =>
                   /\ DOMAIN Payload(i) = {"display_name", "user_name", "active"}
                   /\ Payload(i).display_name = inv[i].reply.val.display_name
                   /\ Payload(i).user_name = inv[i].reply.val.user_name
                   /\ Payload(i).active = inv[i].reply.val.active
            /\ inv[i].client.kind = "raise" =>
                   Payload(i) = [error   |-> inv[i].client.msg,
                                 message |-> L("Failed to retrieve user information")]
            /\ inv[i].reply.kind = "raise" =>
                   Payload(i) = [error   |-> inv[i].reply.msg,
                                 message |-> L("Failed to retrieve user information")]

\* The lookup w.current_user.me() raised.
C8_Witness ==
    \E i \in UserCalls :
        /\ Returned(i)
        /\ inv[i].client.kind = "ok"
        /\ inv[i].reply.kind = "raise"
        /\ inv[i].reply.msg # <<>>

\* C9: an invocation makes at most one outbound call; ask_agent sends its
\* request only once the token check and the configuration checks have
\* passed, and a failed request is not sent again but reported as the
\* result of that invocation.
C9_OneRequest ==
    \A i \in Slots :
        /\ Len(net[i]) <= 1
        /\ (inv[i].tool = "ask_agent" /\ net[i] # <<>>) =>
               /\ PastChecks(i)
               /\ TokenAvailable(i)
               /\ cfg.host # <<>> /\ cfg.endpoint # <<>>
        /\ (inv[i].tool = "ask_agent" /\ inv[i].reply.kind = "raise") =>
               /\ Returned(i)
               /\ Len(net[i]) = 1
               /\ IsError(Payload(i))
               /\ Payload(i).error = inv[i].reply.msg

\* A request failed while another invocation had its own request in flight.
C9_Witness ==
    \E i \in AskAgentCalls :
        /\ Returned(i) /\ inv[i].reply.kind = "raise" /\ Len(net[i]) = 1
        /\ \E j \in AskAgentCalls \ {i} : inv[j].pc = "awaiting"

\* What the invocation in slot i returns when it runs alone with the same
\* inputs and the same answers from its collaborators.
AloneResult(i) ==
    CASE inv[i].tool = "health" -> health
      [] inv[i].tool = "get_current_user" ->
            get_current_user(inv[i].client, inv[i].reply)
      [] inv[i].tool = "ask_agent" ->
            ask_agent(inv[i].prompt, inv[i].tok, inv[i].reply, cfg)

\* C10: however invocations interleave, none changes the configuration or
\* the state of another invocation, each returns what it would return alone,
\* and health returns status "healthy".
C10_Isolated ==
    /\ [](\A i \in Slots :
            Done(i) =>
                /\ inv[i].ret = AloneResult(i)
                /\ inv[i].tool = "health" => Payload(i).status = L("healthy"))
    /\ [][/\ cfg' = cfg
          /\ registry' = registry
          /\ \E i \in Slots :
                \A j \in Slots \ {i} : inv'[j] = inv[j] /\ net'[j] = net[j]]_vars

\* Two calls of ask_agent finished side by side with different results.
C10_Witness ==
    \E i \in AskAgentCalls :
        \E j \in AskAgentCalls \ {i} :
            /\ Returned(i) /\ Returned(j)
            /\ inv[i].reply.kind = "ok"
            /\ inv[i].ret # inv[j].ret

=============================================================================
